---- MODULE Spec2Model ----
(***************************************************************************)
(* Model of sideboard's lifecycle registry (sideboard/lib/_cp.py) and of   *)
(* its connection checker (sideboard/internal/connection_checker.py).      *)
(*                                                                         *)
(* Spec         : the startup/shutdown registries, _run_startup,           *)
(*                _run_shutdown and mainloop, one callback invocation a    *)
(*                step.                                                    *)
(* FairSpec     : Spec with the progress of the thread that runs mainloop. *)
(* ProbeSpec    : _check, one stage a step.                                *)
(* CheckAllSpec : check_all, calling _check for each configured service.  *)
(***************************************************************************)
EXTENDS Integers, Sequences, FiniteSets, TLC

VARIABLES
    startup_registry,   \* _startup_registry: priority -> list of functions
    shutdown_registry,  \* _shutdown_registry: priority -> list of functions
    stopped,            \* the Event `stopped`: TRUE when set
    flag,               \* a boolean owned by user callbacks
    op,                 \* the call in progress, or the last one completed
    pc,                 \* where that call is
    order,              \* sorted(registry.items()) of the loop in progress (keys)
    pi,                 \* position in order of the function being called
    fi,                 \* its position in the list of functions of order[pi]
    pending,            \* an exception is waiting behind mainloop's finally
    left_by,            \* how mainloop's while loop was left
    outcome,            \* how the last call ended
    startup_calls,      \* startup functions invoked by the call, in order
    shutdown_calls,     \* shutdown functions invoked by the call, in order
    warnings,           \* log.warn calls made by the call
    late,               \* a function was registered into the registry being run
    late_regs,          \* those registrations, of a direct call of _run_startup
                        \* or _run_shutdown: <<priority, position, priority of
                        \* the function that was being called>>
    url,                \* _check: the url argument
    ssl_params,         \* _check: the keyword arguments
    ppc,                \* _check: the statement about to run
    status,             \* _check: the list `status`
    port,               \* _check: the local `port`, <<>> while unbound
    socks,              \* the sockets _check has created, in order
    attempts,           \* the stages _check has attempted, with their success
    result,             \* what _check gave its caller
    services,           \* services._jsonrpc: name -> the proxy's url and files
    cpc,                \* check_all: the statement about to run
    name,               \* check_all: the loop variable `name`, 0 while unbound
    checks,             \* check_all: the dict `checks`
    trials              \* the stages attempted by the _check made for each name

lifecycle_vars == <<startup_registry, shutdown_registry, stopped, flag, op, pc,
                    order, pi, fi, pending, left_by, outcome,
                    startup_calls, shutdown_calls, warnings, late,
                    late_regs>>
probe_vars == <<url, ssl_params, ppc, status, port, socks, attempts, result>>
check_all_vars == <<services, cpc, name, checks, trials>>
vars == <<lifecycle_vars, probe_vars, check_all_vars>>

----------------------------------------------------------------------------
(* Bounds *)

\* user registrations (both registries together)
MaxReg == 3

\* default priority of on_startup / on_shutdown
DefaultPriority == 50

\* priority of the built-in stopped.clear / stopped.set entries
StoppedPriority == 0

\* priorities a caller passes: before, with and after the built-in entries
Priorities == {-10, StoppedPriority, DefaultPriority}

\* what a registered function does when called
UserFuncs == {"raise", "set_flag", "clear_flag"}

----------------------------------------------------------------------------
(* The registries *)

\* registry[priority].insert(0, func) in place of append
RegistryPrepend(reg, func, priority) ==
    IF priority \in DOMAIN reg
    THEN [reg EXCEPT ![priority] = <<func>> \o @]
    ELSE reg @@ (priority :> <<func>>)

\* defaultdict(list)[priority].append(func)
RegistryAppend(reg, func, priority) ==
    IF priority \in DOMAIN reg
    THEN [reg EXCEPT ![priority] = Append(@, func)]
    ELSE reg @@ (priority :> <<func>>)

RECURSIVE SortedSeq(_)
\* the keys of sorted(registry.items()): ascending numeric order
SortedSeq(S) ==
    IF S = {} THEN <<>>
    ELSE LET m == CHOOSE x \in S : \A y \in S : x <= y
         IN <<m>> \o SortedSeq(S \ {m})

RECURSIVE ReverseSeq(_)
ReverseSeq(q) == IF q = <<>> THEN <<>> ELSE Append(ReverseSeq(Tail(q)), Head(q))

\* the keys in descending order, as sorted(..., reverse=True) would give them
DescendingKeys(reg) == ReverseSeq(SortedSeq(DOMAIN reg))

SortedKeys(reg) == SortedSeq(DOMAIN reg)

RECURSIVE Entries(_, _)
\* every (priority, index) of a registry, priorities in the order ks
Entries(reg, ks) ==
    IF ks = <<>> THEN <<>>
    ELSE [i \in 1..Len(reg[Head(ks)]) |-> <<Head(ks), i>>] \o Entries(reg, Tail(ks))

RegistrySize(reg) == Len(Entries(reg, SortedKeys(reg)))

UserRegistrations == RegistrySize(startup_registry) + RegistrySize(shutdown_registry) - 2

FuncAt(reg, e) == reg[e[1]][e[2]]

----------------------------------------------------------------------------
(* What calling a registered function does *)

\* the startup entry of line 83 without effect on the event
StoppedAfterNoClear(func, s) ==
    CASE func = "stopped.set" -> TRUE
      [] OTHER                -> s

\* stopped.clear / stopped.set act on the event; the others leave it alone
StoppedAfter(func, s) ==
    CASE func = "stopped.clear" -> FALSE
      [] func = "stopped.set"   -> TRUE
      [] OTHER                  -> s

FlagAfter(func, b) ==
    CASE func = "set_flag"   -> TRUE
      [] func = "clear_flag" -> FALSE
      [] OTHER               -> b

Raises(func) == func = "raise"

----------------------------------------------------------------------------
(* Initial state: the module has been imported *)

LifecycleInit ==
    /\ startup_registry = (StoppedPriority :> <<"stopped.clear">>)
    /\ shutdown_registry = (StoppedPriority :> <<"stopped.set">>)
    /\ stopped = FALSE
    /\ flag = FALSE
    /\ op = "none"
    /\ pc = "idle"
    /\ order = <<>>
    /\ pi = 1
    /\ fi = 1
    /\ pending = FALSE
    /\ left_by = "none"
    /\ outcome = "none"
    /\ startup_calls = <<>>
    /\ shutdown_calls = <<>>
    /\ warnings = 0
    /\ late = FALSE
    /\ late_regs = {}

\* no _check call is made
ProbeIdle ==
    /\ url = [parse |-> "ok", scheme |-> "http", hostname |-> "None",
              port |-> [kind |-> "none", n |-> 0]]
    /\ ssl_params = [ca_certs |-> "", keyfile |-> "", certfile |-> ""]
    /\ ppc = "idle"
    /\ status = <<>>
    /\ port = <<>>
    /\ socks = <<>>
    /\ attempts = <<>>
    /\ result = [kind |-> "none", status |-> <<>>]

\* check_all is not running: no service is configured
CheckAllIdle ==
    /\ services = <<>>
    /\ cpc = "idle"
    /\ name = 0
    /\ checks = <<>>
    /\ trials = <<>>

Init == LifecycleInit /\ ProbeIdle /\ CheckAllIdle

----------------------------------------------------------------------------
(* Registration *)

\* on_startup(func, priority): may be called at any time, also while a
\* registry is being run (from the callback being called, or another thread)
on_startup ==
    /\ pc # "done"
    /\ UserRegistrations < MaxReg
    /\ \E func \in UserFuncs, priority \in Priorities :
           /\ startup_registry' = RegistryAppend(startup_registry, func, priority)
           /\ late_regs' =
                IF pc = "startup" /\ op = "run_startup"
                THEN late_regs \cup {<<priority, Len(startup_registry'[priority]), order[pi]>>}
                ELSE late_regs
    /\ late' = (late \/ pc = "startup")
    /\ UNCHANGED <<shutdown_registry, stopped, flag, op, pc, order, pi, fi, pending,
                   left_by, outcome, startup_calls, shutdown_calls, warnings>>
    /\ UNCHANGED <<probe_vars, check_all_vars>>

on_shutdown ==
    /\ pc # "done"
    /\ UserRegistrations < MaxReg
    /\ \E func \in UserFuncs, priority \in Priorities :
           /\ shutdown_registry' = RegistryAppend(shutdown_registry, func, priority)
           /\ late_regs' =
                IF pc = "shutdown" /\ op = "run_shutdown"
                THEN late_regs \cup {<<priority, Len(shutdown_registry'[priority]), order[pi]>>}
                ELSE late_regs
    /\ late' = (late \/ pc = "shutdown")
    /\ UNCHANGED <<startup_registry, stopped, flag, op, pc, order, pi, fi, pending,
                   left_by, outcome, startup_calls, shutdown_calls, warnings>>
    /\ UNCHANGED <<probe_vars, check_all_vars>>

----------------------------------------------------------------------------
(* Calls *)

\* for priority, functions in sorted(_startup_registry.items()):
\*     for func in functions:
\* the first function is about to be called (no list of a registry is empty)
EnterStartup ==
    /\ pc' = "startup"
    /\ order' = SortedKeys(startup_registry)
    /\ pi' = 1
    /\ fi' = 1
    /\ late' = FALSE
    /\ late_regs' = {}

\* for priority, functions in sorted(_shutdown_registry.items()):
\*     for func in functions:
EnterShutdown ==
    /\ pc' = "shutdown"
    /\ order' = SortedKeys(shutdown_registry)
    /\ pi' = 1
    /\ fi' = 1
    /\ late' = FALSE
    /\ late_regs' = {}

call_run_startup ==
    /\ pc = "idle"
    /\ op' = "run_startup"
    /\ EnterStartup
    /\ UNCHANGED <<startup_registry, shutdown_registry, stopped, flag, pending,
                   left_by, outcome, startup_calls, shutdown_calls, warnings>>
    /\ UNCHANGED <<probe_vars, check_all_vars>>

call_run_shutdown ==
    /\ pc = "idle"
    /\ op' = "run_shutdown"
    /\ EnterShutdown
    /\ UNCHANGED <<startup_registry, shutdown_registry, stopped, flag, pending,
                   left_by, outcome, startup_calls, shutdown_calls, warnings>>
    /\ UNCHANGED <<probe_vars, check_all_vars>>

\* mainloop begins with _run_startup(), outside its try statement
call_mainloop ==
    /\ pc = "idle"
    /\ op' = "mainloop"
    /\ EnterStartup
    /\ UNCHANGED <<startup_registry, shutdown_registry, stopped, flag, pending,
                   left_by, outcome, startup_calls, shutdown_calls, warnings>>
    /\ UNCHANGED <<probe_vars, check_all_vars>>

\* the caller has the outcome of the call: its frame is gone
return_to_caller ==
    /\ pc = "done"
    /\ pc' = "idle"
    /\ op' = "none"
    /\ order' = <<>>
    /\ pi' = 1
    /\ fi' = 1
    /\ pending' = FALSE
    /\ left_by' = "none"
    /\ outcome' = "none"
    /\ startup_calls' = <<>>
    /\ shutdown_calls' = <<>>
    /\ warnings' = 0
    /\ late' = FALSE
    /\ late_regs' = {}
    /\ UNCHANGED <<startup_registry, shutdown_registry, stopped, flag>>
    /\ UNCHANGED <<probe_vars, check_all_vars>>

----------------------------------------------------------------------------
(* The two for loops over a registry *)

\* the inner loop over a copy of the list, made when the loop reached it:
\* in the last list nothing comes after the functions it had then (in the
\* model, the function being called)
HasNextInCopy(reg, ord, p, f) == p < Len(ord)

\* whether the loops have another function after position (p, f): the list
\* being iterated is read as it is now, the keys as they were sorted
HasNext(reg, ord, p, f) == f < Len(reg[ord[p]]) \/ p < Len(ord)

NextPi(reg, ord, p, f) == IF f < Len(reg[ord[p]]) THEN p ELSE p + 1

NextFi(reg, ord, p, f) == IF f < Len(reg[ord[p]]) THEN f + 1 ELSE 1

----------------------------------------------------------------------------
(* _run_startup *)

\* _run_startup with the try/except of _run_shutdown around func()
startup_invoke_isolated ==
    /\ pc = "startup"
    /\ LET func == startup_registry[order[pi]][fi] IN
         /\ startup_calls' = Append(startup_calls, <<order[pi], fi>>)
         /\ IF Raises(func)
            THEN UNCHANGED <<stopped, flag>>
            ELSE /\ stopped' = StoppedAfter(func, stopped)
                 /\ flag' = FlagAfter(func, flag)
         /\ IF HasNext(startup_registry, order, pi, fi)
            THEN /\ pi' = NextPi(startup_registry, order, pi, fi)
                 /\ fi' = NextFi(startup_registry, order, pi, fi)
                 /\ UNCHANGED <<pc, outcome>>
            ELSE /\ UNCHANGED <<pi, fi>>
                 /\ IF op = "mainloop"
                    THEN pc' = "check" /\ UNCHANGED outcome
                    ELSE pc' = "done" /\ outcome' = "returned"
    /\ UNCHANGED <<startup_registry, shutdown_registry, op, order, pending, left_by,
                   shutdown_calls, warnings, late>>
    /\ UNCHANGED late_regs
    /\ UNCHANGED <<probe_vars, check_all_vars>>

\* mainloop with _run_startup() inside its try statement: an exception of
\* a startup function runs the finally clause before it goes on
startup_invoke_inside_try ==
    /\ pc = "startup"
    /\ LET func == startup_registry[order[pi]][fi] IN
         /\ startup_calls' = Append(startup_calls, <<order[pi], fi>>)
         /\ IF Raises(func)
            THEN IF op = "mainloop"
                 THEN /\ EnterShutdown
                      /\ pending' = TRUE
                      /\ UNCHANGED <<stopped, flag, outcome>>
                 ELSE /\ pc' = "done"
                      /\ outcome' = "raised"
                      /\ UNCHANGED <<pi, fi, stopped, flag, order, pending, late,
                                     late_regs>>
            ELSE /\ stopped' = StoppedAfter(func, stopped)
                 /\ flag' = FlagAfter(func, flag)
                 /\ IF HasNext(startup_registry, order, pi, fi)
                    THEN /\ pi' = NextPi(startup_registry, order, pi, fi)
                         /\ fi' = NextFi(startup_registry, order, pi, fi)
                         /\ UNCHANGED <<pc, outcome>>
                    ELSE /\ UNCHANGED <<pi, fi>>
                         /\ IF op = "mainloop"
                            THEN pc' = "check" /\ UNCHANGED outcome
                            ELSE pc' = "done" /\ outcome' = "returned"
                 /\ UNCHANGED <<order, pending, late, late_regs>>
    /\ UNCHANGED <<startup_registry, shutdown_registry, op, left_by,
                   shutdown_calls, warnings>>
    /\ UNCHANGED <<probe_vars, check_all_vars>>

\* func() of line 71, and the loops' move to the next function. An
\* exception leaves _run_startup, and mainloop (line 97 is outside the try)
startup_invoke ==
    /\ pc = "startup"
    /\ LET func == startup_registry[order[pi]][fi] IN
         /\ startup_calls' = Append(startup_calls, <<order[pi], fi>>)
         /\ IF Raises(func)
            THEN /\ pc' = "done"
                 /\ outcome' = "raised"
                 /\ UNCHANGED <<pi, fi, stopped, flag>>
            ELSE /\ stopped' = StoppedAfter(func, stopped)
                 /\ flag' = FlagAfter(func, flag)
                 /\ IF HasNext(startup_registry, order, pi, fi)
                    THEN /\ pi' = NextPi(startup_registry, order, pi, fi)
                         /\ fi' = NextFi(startup_registry, order, pi, fi)
                         /\ UNCHANGED <<pc, outcome>>
                    ELSE /\ UNCHANGED <<pi, fi>>
                         /\ IF op = "mainloop"
                            THEN pc' = "check" /\ UNCHANGED outcome
                            ELSE pc' = "done" /\ outcome' = "returned"
    /\ UNCHANGED <<startup_registry, shutdown_registry, op, order, pending, left_by,
                   shutdown_calls, warnings, late>>
    /\ UNCHANGED late_regs
    /\ UNCHANGED <<probe_vars, check_all_vars>>

----------------------------------------------------------------------------
(* _run_shutdown *)

\* _run_shutdown without its try/except: the exception leaves the loops
shutdown_invoke_unprotected ==
    /\ pc = "shutdown"
    /\ LET func == shutdown_registry[order[pi]][fi] IN
         /\ shutdown_calls' = Append(shutdown_calls, <<order[pi], fi>>)
         /\ IF Raises(func)
            THEN /\ pc' = "done"
                 /\ outcome' = "raised"
                 /\ UNCHANGED <<pi, fi, stopped, flag>>
            ELSE /\ stopped' = StoppedAfter(func, stopped)
                 /\ flag' = FlagAfter(func, flag)
                 /\ IF HasNext(shutdown_registry, order, pi, fi)
                    THEN /\ pi' = NextPi(shutdown_registry, order, pi, fi)
                         /\ fi' = NextFi(shutdown_registry, order, pi, fi)
                         /\ UNCHANGED <<pc, outcome>>
                    ELSE /\ UNCHANGED <<pi, fi>>
                         /\ pc' = "done"
                         /\ outcome' = IF pending THEN "raised" ELSE "returned"
    /\ UNCHANGED <<startup_registry, shutdown_registry, op, order, pending, left_by,
                   startup_calls, warnings, late>>
    /\ UNCHANGED late_regs
    /\ UNCHANGED <<probe_vars, check_all_vars>>

\* _run_shutdown with the try around the loops instead of around func():
\* the first exception is logged and ends the loops
shutdown_invoke_outer_try ==
    /\ pc = "shutdown"
    /\ LET func == shutdown_registry[order[pi]][fi] IN
         /\ shutdown_calls' = Append(shutdown_calls, <<order[pi], fi>>)
         /\ IF Raises(func)
            THEN /\ warnings' = warnings + 1
                 /\ UNCHANGED <<stopped, flag>>
            ELSE /\ stopped' = StoppedAfter(func, stopped)
                 /\ flag' = FlagAfter(func, flag)
                 /\ UNCHANGED warnings
         /\ IF HasNext(shutdown_registry, order, pi, fi) /\ ~Raises(func)
            THEN /\ pi' = NextPi(shutdown_registry, order, pi, fi)
                 /\ fi' = NextFi(shutdown_registry, order, pi, fi)
                 /\ UNCHANGED <<pc, outcome>>
            ELSE /\ UNCHANGED <<pi, fi>>
                 /\ pc' = "done"
                 /\ outcome' = IF pending THEN "raised" ELSE "returned"
    /\ UNCHANGED <<startup_registry, shutdown_registry, op, order, pending, left_by,
                   startup_calls, late>>
    /\ UNCHANGED late_regs
    /\ UNCHANGED <<probe_vars, check_all_vars>>

\* try: func() / except Exception: log.warn(...), and the loops' move to
\* the next function. After the last one _run_shutdown returns; in mainloop
\* the finally clause ends and an exception waiting behind it goes on
shutdown_invoke ==
    /\ pc = "shutdown"
    /\ LET func == shutdown_registry[order[pi]][fi] IN
         /\ shutdown_calls' = Append(shutdown_calls, <<order[pi], fi>>)
         /\ IF Raises(func)
            THEN /\ warnings' = warnings + 1
                 /\ UNCHANGED <<stopped, flag>>
            ELSE /\ stopped' = StoppedAfter(func, stopped)
                 /\ flag' = FlagAfter(func, flag)
                 /\ UNCHANGED warnings
         /\ IF HasNext(shutdown_registry, order, pi, fi)
            THEN /\ pi' = NextPi(shutdown_registry, order, pi, fi)
                 /\ fi' = NextFi(shutdown_registry, order, pi, fi)
                 /\ UNCHANGED <<pc, outcome>>
            ELSE /\ UNCHANGED <<pi, fi>>
                 /\ pc' = "done"
                 /\ outcome' = IF pending THEN "raised" ELSE "returned"
    /\ UNCHANGED <<startup_registry, shutdown_registry, op, order, pending, left_by,
                   startup_calls, late>>
    /\ UNCHANGED late_regs
    /\ UNCHANGED <<probe_vars, check_all_vars>>

----------------------------------------------------------------------------
(* mainloop *)

\* while stopped.is_set(): the test of line 99 without its `not`
loop_test_inverted ==
    /\ pc = "check"
    /\ IF ~stopped
       THEN EnterShutdown /\ left_by' = "stopped"
       ELSE pc' = "wait" /\ UNCHANGED <<order, pi, fi, late, late_regs, left_by>>
    /\ UNCHANGED <<startup_registry, shutdown_registry, stopped, flag, op, pending,
                   outcome, startup_calls, shutdown_calls, warnings>>
    /\ UNCHANGED <<probe_vars, check_all_vars>>

\* while not stopped.is_set():
loop_test ==
    /\ pc = "check"
    /\ IF stopped
       THEN EnterShutdown /\ left_by' = "stopped"
       ELSE pc' = "wait" /\ UNCHANGED <<order, pi, fi, late, late_regs, left_by>>
    /\ UNCHANGED <<startup_registry, shutdown_registry, stopped, flag, op, pending,
                   outcome, startup_calls, shutdown_calls, warnings>>
    /\ UNCHANGED <<probe_vars, check_all_vars>>

\* stopped.wait(config['thread_wait_interval']) returns: the event was set
\* or the interval has passed
wait_return ==
    /\ pc = "wait"
    /\ pc' = "check"
    /\ UNCHANGED <<startup_registry, shutdown_registry, stopped, flag, op, order, pi,
                   fi, pending, left_by, outcome, startup_calls, shutdown_calls,
                   warnings, late>>
    /\ UNCHANGED late_regs
    /\ UNCHANGED <<probe_vars, check_all_vars>>

\* mainloop without the except clause: the interrupt passes the finally
wait_interrupt_uncaught ==
    /\ pc = "wait"
    /\ EnterShutdown
    /\ left_by' = "KeyboardInterrupt"
    /\ pending' = TRUE
    /\ UNCHANGED <<startup_registry, shutdown_registry, stopped, flag, op,
                   outcome, startup_calls, shutdown_calls, warnings>>
    /\ UNCHANGED <<probe_vars, check_all_vars>>

\* except KeyboardInterrupt: break
wait_interrupt ==
    /\ pc = "wait"
    /\ EnterShutdown
    /\ left_by' = "KeyboardInterrupt"
    /\ UNCHANGED <<startup_registry, shutdown_registry, stopped, flag, op, pending,
                   outcome, startup_calls, shutdown_calls, warnings>>
    /\ UNCHANGED <<probe_vars, check_all_vars>>

\* mainloop with `except KeyboardInterrupt` as its only handler and no
\* finally clause: another exception leaves mainloop at once
wait_error_no_finally ==
    /\ pc = "wait"
    /\ pc' = "done"
    /\ left_by' = "error"
    /\ pending' = TRUE
    /\ outcome' = "raised"
    /\ UNCHANGED <<startup_registry, shutdown_registry, stopped, flag, op, order, pi,
                   fi, startup_calls, shutdown_calls, warnings, late>>
    /\ UNCHANGED late_regs
    /\ UNCHANGED <<probe_vars, check_all_vars>>

\* any other exception of line 101 (a missing config key, an error of wait)
\* passes the inner try: the finally clause runs, then the exception goes on
wait_error ==
    /\ pc = "wait"
    /\ EnterShutdown
    /\ left_by' = "error"
    /\ pending' = TRUE
    /\ UNCHANGED <<startup_registry, shutdown_registry, stopped, flag, op,
                   outcome, startup_calls, shutdown_calls, warnings>>
    /\ UNCHANGED <<probe_vars, check_all_vars>>

\* an external shutdown trigger: stopped.set() from another thread while
\* mainloop runs
stop_request ==
    /\ op = "mainloop"
    /\ pc # "done"
    /\ ~stopped
    /\ stopped' = TRUE
    /\ UNCHANGED <<startup_registry, shutdown_registry, flag, op, pc, order, pi, fi,
                   pending, left_by, outcome, startup_calls, shutdown_calls,
                   warnings, late>>
    /\ UNCHANGED late_regs
    /\ UNCHANGED <<probe_vars, check_all_vars>>

----------------------------------------------------------------------------
(* The lifecycle specification *)

Next ==
    \/ on_startup
    \/ on_shutdown
    \/ call_run_startup
    \/ call_run_shutdown
    \/ call_mainloop
    \/ return_to_caller
    \/ startup_invoke
    \/ shutdown_invoke
    \/ loop_test
    \/ wait_return
    \/ wait_interrupt
    \/ wait_error
    \/ stop_request

Spec == Init /\ [][Next]_vars

\* The same with the progress the interpreter gives the thread of mainloop:
\* stopped.wait(interval) returns when the interval has passed at the latest,
\* the while test is evaluated, and every shutdown function that is called
\* returns or raises
FairSpec ==
    /\ Init
    /\ [][Next]_vars
    /\ WF_vars(wait_return)
    /\ WF_vars(loop_test)
    /\ WF_vars(shutdown_invoke)

----------------------------------------------------------------------------
(* Properties of the lifecycle registry *)

\* every (priority, index) a registry holds
EntrySet(reg) == UNION {{<<p, i>> : i \in 1..Len(reg[p])} : p \in DOMAIN reg}

\* a comes before b in the execution order: lower priority, or the same
\* priority and registered earlier
Before(a, b) == a[1] < b[1] \/ (a[1] = b[1] /\ a[2] < b[2])

\* calls is strictly ascending in the execution order (so no entry twice)
InOrder(calls) ==
    \A i, j \in 1..Len(calls) : i < j => Before(calls[i], calls[j])

Called(calls) == {calls[i] : i \in 1..Len(calls)}

RaisingEntries(reg) == {e \in EntrySet(reg) : Raises(FuncAt(reg, e))}

Funcs(reg) == {FuncAt(reg, e) : e \in EntrySet(reg)}

\* C1: run_startup, all registration done before it and no callback
\* raising, returns having invoked every registered startup callback
\* exactly once, in ascending priority and, within a priority, in
\* registration order.
C1_StartupOrder ==
    (op = "run_startup" /\ pc = "done" /\ ~late
     /\ RaisingEntries(startup_registry) = {})
    => /\ outcome = "returned"
       /\ InOrder(startup_calls)
       /\ Called(startup_calls) = EntrySet(startup_registry)

\* three priorities in one run, two callbacks sharing one of them
C1_Witness ==
    /\ op = "run_startup" /\ pc = "done" /\ ~late /\ outcome = "returned"
    /\ startup_calls = <<<<-10, 1>>, <<0, 1>>, <<0, 2>>, <<50, 1>>>>

\* C2: run_shutdown invokes every registered shutdown callback exactly
\* once in execution order and returns normally, whichever of them raise;
\* each error is logged.
C2_ShutdownIsolation ==
    (op = "run_shutdown" /\ pc = "done" /\ ~late)
    => /\ outcome = "returned"
       /\ InOrder(shutdown_calls)
       /\ Called(shutdown_calls) = EntrySet(shutdown_registry)
       /\ warnings = Cardinality(RaisingEntries(shutdown_registry))

\* three callbacks, the second raises, the third was still invoked
C2_Witness ==
    /\ op = "run_shutdown" /\ pc = "done" /\ ~late
    /\ Len(shutdown_calls) = 3
    /\ Raises(FuncAt(shutdown_registry, shutdown_calls[2]))
    /\ ~Raises(FuncAt(shutdown_registry, shutdown_calls[3]))

\* C3: when a registered startup callback raises, run_startup ends with
\* the error at its caller, having invoked exactly the callbacks up to and
\* including the first raising one in the execution order, each once.
C3_StartupAborts ==
    (op = "run_startup" /\ pc = "done" /\ ~late
     /\ RaisingEntries(startup_registry) # {})
    => /\ outcome = "raised"
       /\ InOrder(startup_calls)
       /\ \E r \in RaisingEntries(startup_registry) :
            /\ \A e \in RaisingEntries(startup_registry) : ~Before(e, r)
            /\ Called(startup_calls) =
                 {e \in EntrySet(startup_registry) : e = r \/ Before(e, r)}

\* the raising callback had one before it and two after it
C3_Witness ==
    /\ op = "run_startup" /\ pc = "done" /\ ~late /\ outcome = "raised"
    /\ Len(startup_calls) = 2
    /\ RegistrySize(startup_registry) = 4

\* C4: when mainloop has completed its startup phase, control leaves it
\* only after every registered shutdown callback has been invoked, however
\* the wait ended (event set, KeyboardInterrupt, another error).
C4_ShutdownBeforeReturn ==
    (op = "mainloop" /\ pc = "done" /\ left_by # "none" /\ ~late)
    => /\ InOrder(shutdown_calls)
       /\ Called(shutdown_calls) = EntrySet(shutdown_registry)

\* mainloop never leaves its wait phase towards the caller directly
C4_Witness ==
    /\ op = "mainloop" /\ pc = "done" /\ left_by = "error" /\ ~late
    /\ outcome = "raised"
    /\ Len(shutdown_calls) = 3

\* C5: a KeyboardInterrupt during the wait ends the while loop for good,
\* the shutdown phase runs and mainloop returns normally.
C5_InterruptNotReraised ==
    (op = "mainloop" /\ left_by = "KeyboardInterrupt")
    => /\ pc \in {"shutdown", "done"}
       /\ ~pending
       /\ pc = "done" => /\ outcome = "returned"
                         /\ Len(shutdown_calls) > 0
                         /\ ~late => Called(shutdown_calls) = EntrySet(shutdown_registry)

C5_Witness ==
    /\ op = "mainloop" /\ left_by = "KeyboardInterrupt" /\ pc = "done"
    /\ outcome = "returned"
    /\ Len(shutdown_calls) = 2

\* the call has completed its startup phase and has not begun to shut down
Running ==
    \/ op = "run_startup" /\ pc = "done" /\ outcome = "returned"
    \/ op = "mainloop" /\ pc \in {"check", "wait"}

\* the call has run its shutdown phase to the end
ShutDown ==
    /\ pc = "done"
    /\ op = "run_shutdown" \/ (op = "mainloop" /\ left_by # "none")

FlagFuncs == {"set_flag", "clear_flag"}

FlagFuncsCalled(reg, calls) == {FuncAt(reg, e) : e \in Called(calls)} \cap FlagFuncs

\* C6: when the startup callbacks that touch the flag set it and the
\* shutdown callbacks that touch it clear it, the flag is true from the end
\* of the startup phase until the shutdown phase begins (no step outside
\* the two phases changes it) and false once the shutdown phase has ended;
\* the stop event is clear when run_startup returns and set when the
\* shutdown phase has ended.
C6_RoundTrip ==
    /\ [](/\ (Running /\ FlagFuncsCalled(startup_registry, startup_calls) = {"set_flag"})
             => flag
          /\ (op = "run_startup" /\ Running) => ~stopped
          /\ (ShutDown /\ ~late /\ Funcs(shutdown_registry) \cap FlagFuncs = {"clear_flag"})
             => (~flag /\ outcome = (IF pending THEN "raised" ELSE "returned"))
          /\ (ShutDown /\ ~late) => stopped)
    /\ [][pc \notin {"startup", "shutdown"} => flag' = flag]_vars

\* one mainloop call took the flag up and down again
C6_Witness ==
    /\ op = "mainloop" /\ pc = "done" /\ outcome = "returned" /\ ~late
    /\ FlagFuncsCalled(startup_registry, startup_calls) = {"set_flag"}
    /\ FlagFuncsCalled(shutdown_registry, shutdown_calls) = {"clear_flag"}
    /\ RaisingEntries(shutdown_registry) # {}
    /\ ~flag /\ stopped

----------------------------------------------------------------------------
(* connection_checker._check *)

\* port numbers of the range urllib accepts, 0..65535
PortValues == {0, 1, 80, 443, 8080, 65535}

\* the port component of a url: absent, a number of the range, a number
\* above the range, or not a number
PortComponents ==
    [kind : {"none", "not_a_number", "out_of_range"}, n : {0}]
    \cup [kind : {"number"}, n : PortValues]

Schemes == {"http", "https", "ws", "wss"}

\* what urlparse makes of a url: it raises (an unbalanced IPv6 bracket), or
\* gives scheme, hostname (None without a network location) and port
Urls ==
    [parse : {"ok"}, scheme : Schemes, hostname : {"host", "None"}, port : PortComponents]
    \cup [parse : {"ValueError"}, scheme : {"http"}, hostname : {"None"}, port : {[kind |-> "none", n |-> 0]}]

\* ca_certs, keyfile, certfile of a service: a path, or empty
SslParams == [ca_certs : {"", "ca.pem"}, keyfile : {"", "key.pem"}, certfile : {"", "cert.pem"}]

\* any(ssl_params.values())
AnySslParam(params) == params.ca_certs # "" \/ params.keyfile # "" \/ params.certfile # ""

\* 443 if parsed.scheme in ['https', 'wss'] else 80
DefaultPort(scheme) == IF scheme \in {"https", "wss"} THEN 443 ELSE 80

\* parsed.port or (443 if parsed.scheme in ['https', 'wss'] else 80), for a
\* parsed.port that is None (<<>>) or a number (<<n>>): 0 is as false as None
EffectivePort(parsed_port, scheme) ==
    IF parsed_port = <<>> \/ parsed_port = <<0>> THEN DefaultPort(scheme) ELSE parsed_port[1]

\* _check(url, **ssl_params) is called
ProbeInit ==
    /\ url \in Urls
    /\ ssl_params \in SslParams
    /\ ppc = "parse"
    /\ status = <<>>
    /\ port = <<>>
    /\ socks = <<>>
    /\ attempts = <<>>
    /\ result = [kind |-> "none", status |-> <<>>]

\* return status + [line]
Return(lines) ==
    /\ ppc' = "done"
    /\ result' = [kind |-> "returned", status |-> lines]

\* an exception leaves _check
Raise ==
    /\ ppc' = "done"
    /\ result' = [kind |-> "raised", status |-> <<>>]

\* lines 12-17: status = ['checking ...'], urlparse(url) in its try
parse_url ==
    /\ ppc = "parse"
    /\ IF url.parse = "ok"
       THEN /\ status' = <<"checking">>
            /\ ppc' = "port"
            /\ UNCHANGED <<result, attempts>>
       ELSE /\ status' = <<"checking">>
            /\ attempts' = Append(attempts, <<"parse", FALSE>>)
            /\ Return(<<"checking", "failed to parse url">>)
    /\ UNCHANGED <<url, ssl_params, port, socks>>
    /\ UNCHANGED <<lifecycle_vars, check_all_vars>>

\* lines 18-21, the else clause of the try: parsed.port raises ValueError
\* for a port that is not a number; for a number above 65535 it raises or
\* gives None, as the urllib of the interpreter has it
derive_port ==
    /\ ppc = "port"
    /\ \/ /\ url.port.kind \in {"not_a_number", "out_of_range"}
          /\ attempts' = Append(attempts, <<"parse", FALSE>>)
          /\ Raise
          /\ UNCHANGED <<status, port>>
       \/ /\ url.port.kind # "not_a_number"
          /\ LET parsed_port == IF url.port.kind = "number" THEN <<url.port.n>> ELSE <<>>
             IN port' = <<EffectivePort(parsed_port, url.scheme)>>
          /\ status' = Append(status, "using hostname and port")
          /\ attempts' = Append(attempts, <<"parse", TRUE>>)
          /\ ppc' = "resolve"
          /\ UNCHANGED result
    /\ UNCHANGED <<url, ssl_params, socks>>
    /\ UNCHANGED <<lifecycle_vars, check_all_vars>>

\* lines 23-28 with the failure appended to status and no return
resolve_without_return ==
    /\ ppc = "resolve"
    /\ \E ok \in BOOLEAN :
         /\ url.hostname = "None" => ~ok
         /\ attempts' = Append(attempts, <<"resolve", ok>>)
         /\ status' = Append(status, IF ok THEN "successfully resolved host"
                                          ELSE "failed to resolve host with DNS")
         /\ ppc' = "connect"
         /\ UNCHANGED result
    /\ UNCHANGED <<url, ssl_params, port, socks>>
    /\ UNCHANGED <<lifecycle_vars, check_all_vars>>

\* lines 23-28: socket.gethostbyname(host); a host of None is a TypeError,
\* caught like a failed lookup
resolve ==
    /\ ppc = "resolve"
    /\ \E ok \in BOOLEAN :
         /\ url.hostname = "None" => ~ok
         /\ attempts' = Append(attempts, <<"resolve", ok>>)
         /\ IF ok
            THEN /\ status' = Append(status, "successfully resolved host")
                 /\ ppc' = "connect"
                 /\ UNCHANGED result
            ELSE /\ Return(Append(status, "failed to resolve host with DNS"))
                 /\ UNCHANGED status
    /\ UNCHANGED <<url, ssl_params, port, socks>>
    /\ UNCHANGED <<lifecycle_vars, check_all_vars>>

\* lines 30-36: sock = socket.create_connection((host, port))
connect ==
    /\ ppc = "connect"
    /\ \E ok \in BOOLEAN :
         /\ attempts' = Append(attempts, <<"connect", ok>>)
         /\ IF ok
            THEN /\ socks' = Append(socks, [port |-> port[1], state |-> "open"])
                 /\ status' = Append(status, "successfully opened socket connection")
                 /\ ppc' = "ssl_params"
                 /\ UNCHANGED result
            ELSE /\ Return(Append(status, "failed to establish a socket connection"))
                 /\ UNCHANGED <<status, socks>>
    /\ UNCHANGED <<url, ssl_params, port>>
    /\ UNCHANGED <<lifecycle_vars, check_all_vars>>

\* line 38 with all() in place of any(): the TLS stages run only when the
\* three parameters are all given
ssl_guard_requires_all ==
    /\ ppc = "ssl_params"
    /\ ppc' = IF \A k \in DOMAIN ssl_params : ssl_params[k] # ""
              THEN "wrap" ELSE "finish"
    /\ UNCHANGED <<url, ssl_params, status, port, socks, attempts, result>>
    /\ UNCHANGED <<lifecycle_vars, check_all_vars>>

\* line 38: if any(ssl_params.values()):
ssl_guard ==
    /\ ppc = "ssl_params"
    /\ ppc' = IF AnySslParam(ssl_params) THEN "wrap" ELSE "finish"
    /\ UNCHANGED <<url, ssl_params, status, port, socks, attempts, result>>
    /\ UNCHANGED <<lifecycle_vars, check_all_vars>>

\* lines 39-47 returning the failure line alone instead of status + [line]
wrap_returns_line_only ==
    /\ ppc = "wrap"
    /\ \E ok \in BOOLEAN :
         /\ attempts' = Append(attempts, <<"wrap", ok>>)
         /\ socks' = [socks EXCEPT ![Len(socks)].state = "closed"]
         /\ IF ok
            THEN /\ status' = Append(status, "succeeded at SSL handshake")
                 /\ ppc' = "validate_connect"
                 /\ UNCHANGED result
            ELSE /\ Return(<<"failed to complete SSL handshake">>)
                 /\ UNCHANGED status
    /\ UNCHANGED <<url, ssl_params, port>>
    /\ UNCHANGED <<lifecycle_vars, check_all_vars>>

\* lines 39-47 without the finally clause: the socket is left as it is
wrap_without_finally ==
    /\ ppc = "wrap"
    /\ \E ok \in BOOLEAN :
         /\ attempts' = Append(attempts, <<"wrap", ok>>)
         /\ IF ok
            THEN /\ status' = Append(status, "succeeded at SSL handshake")
                 /\ ppc' = "validate_connect"
                 /\ UNCHANGED result
            ELSE /\ Return(Append(status, "failed to complete SSL handshake"))
                 /\ UNCHANGED status
    /\ UNCHANGED <<url, ssl_params, port, socks>>
    /\ UNCHANGED <<lifecycle_vars, check_all_vars>>

\* lines 39-47: ssl.wrap_socket(sock, **ssl_params), and sock.close() in
\* the finally clause
wrap ==
    /\ ppc = "wrap"
    /\ \E ok \in BOOLEAN :
         /\ attempts' = Append(attempts, <<"wrap", ok>>)
         /\ socks' = [socks EXCEPT ![Len(socks)].state = "closed"]
         /\ IF ok
            THEN /\ status' = Append(status, "succeeded at SSL handshake")
                 /\ ppc' = "validate_connect"
                 /\ UNCHANGED result
            ELSE /\ Return(Append(status, "failed to complete SSL handshake"))
                 /\ UNCHANGED status
    /\ UNCHANGED <<url, ssl_params, port>>
    /\ UNCHANGED <<lifecycle_vars, check_all_vars>>

\* lines 49-50: socket.create_connection((host, port)) of the with statement
validate_connect ==
    /\ ppc = "validate_connect"
    /\ \E ok \in BOOLEAN :
         IF ok
         THEN /\ socks' = Append(socks, [port |-> port[1], state |-> "open"])
              /\ ppc' = "validate_wrap"
              /\ UNCHANGED <<result, attempts>>
         ELSE /\ attempts' = Append(attempts, <<"validate", FALSE>>)
              /\ Return(Append(status, "failed to validate server cert"))
              /\ UNCHANGED socks
    /\ UNCHANGED <<url, ssl_params, port, status>>
    /\ UNCHANGED <<lifecycle_vars, check_all_vars>>

\* lines 50-53: ssl.wrap_socket(sock, cert_reqs=ssl.CERT_REQUIRED, ...) in
\* the with closing(...) block, which closes the socket as it is left
validate_wrap ==
    /\ ppc = "validate_wrap"
    /\ \E ok \in BOOLEAN :
         /\ attempts' = Append(attempts, <<"validate", ok>>)
         /\ socks' = [socks EXCEPT ![Len(socks)].state = "closed"]
         /\ IF ok
            THEN /\ ppc' = "finish"
                 /\ UNCHANGED result
            ELSE Return(Append(status, "failed to validate server cert"))
    /\ UNCHANGED <<url, ssl_params, port, status>>
    /\ UNCHANGED <<lifecycle_vars, check_all_vars>>

\* lines 55-57: status.append('everything seems to work'); return status.
\* No statement closes a socket that is still open here: it is closed when
\* the interpreter collects the local `sock`, at the return (reference
\* counting) or at some later time
finish ==
    /\ ppc = "finish"
    /\ status' = Append(status, "everything seems to work")
    /\ Return(Append(status, "everything seems to work"))
    /\ \E collected \in BOOLEAN :
         socks' = IF collected
                  THEN [i \in DOMAIN socks |-> [socks[i] EXCEPT !.state = "closed"]]
                  ELSE socks
    /\ UNCHANGED <<url, ssl_params, port, attempts>>
    /\ UNCHANGED <<lifecycle_vars, check_all_vars>>

ProbeNext ==
    \/ parse_url
    \/ derive_port
    \/ resolve
    \/ connect
    \/ ssl_guard
    \/ wrap
    \/ validate_connect
    \/ validate_wrap
    \/ finish

\* _check is called in a process that has imported the lifecycle module
ProbeStart == LifecycleInit /\ ProbeInit /\ CheckAllIdle

ProbeSpec == ProbeStart /\ [][ProbeNext]_vars

----------------------------------------------------------------------------
(* connection_checker.check_all *)

\* services configured at most
MaxServices == 2

\* '{}://{}/'.format(jproxy.type, jproxy.host): the type is http or https and
\* the host a name, or a name and a port that may be mistyped
ServiceUrls ==
    [parse : {"ok"}, scheme : {"http", "https"}, hostname : {"host"},
     port : {[kind |-> "none", n |-> 0], [kind |-> "not_a_number", n |-> 0]}]

\* jproxy.ca_certs, jproxy.key_file, jproxy.cert_file
ServiceSslParams ==
    { [ca_certs |-> "", keyfile |-> "", certfile |-> ""],
      [ca_certs |-> "ca.pem", keyfile |-> "", certfile |-> ""] }

Endpoints == [url : ServiceUrls, ssl_params : ServiceSslParams]

\* services._jsonrpc, its names numbered from 1
Directories == UNION { [1..n -> Endpoints] : n \in 0..MaxServices }

\* line 61: checks = {}
CheckAllInit ==
    /\ services \in Directories
    /\ cpc = "loop"
    /\ name = 0
    /\ checks = <<>>
    /\ trials = <<>>

\* lines 62-65: the next item of services._jsonrpc.items(), in the order
\* the dict gives them, and the call of _check with fresh locals
check_all_call ==
    /\ cpc = "loop"
    /\ \E n \in DOMAIN services \ DOMAIN checks :
         /\ name' = n
         /\ url' = services[n].url
         /\ ssl_params' = services[n].ssl_params
    /\ ppc' = "parse"
    /\ status' = <<>>
    /\ port' = <<>>
    /\ socks' = <<>>
    /\ attempts' = <<>>
    /\ result' = [kind |-> "none", status |-> <<>>]
    /\ cpc' = "call"
    /\ UNCHANGED <<services, checks, trials>>
    /\ UNCHANGED lifecycle_vars

\* line 65: checks[name] = the list _check returned
check_all_store ==
    /\ cpc = "call"
    /\ ppc = "done"
    /\ result.kind = "returned"
    /\ checks' = checks @@ (name :> result.status)
    /\ trials' = trials @@ (name :> attempts)
    /\ cpc' = "loop"
    /\ ppc' = "idle"
    /\ UNCHANGED <<services, name>>
    /\ UNCHANGED <<url, ssl_params, status, port, socks, attempts, result>>
    /\ UNCHANGED lifecycle_vars

\* line 65: the exception that left _check leaves check_all, which has no
\* try statement; its dict `checks` goes with it
check_all_raise ==
    /\ cpc = "call"
    /\ ppc = "done"
    /\ result.kind = "raised"
    /\ checks' = <<>>
    /\ cpc' = "raised"
    /\ ppc' = "idle"
    /\ UNCHANGED <<services, name, trials>>
    /\ UNCHANGED <<url, ssl_params, status, port, socks, attempts, result>>
    /\ UNCHANGED lifecycle_vars

\* line 66: return checks, the for loop exhausted
check_all_return ==
    /\ cpc = "loop"
    /\ DOMAIN services \ DOMAIN checks = {}
    /\ cpc' = "returned"
    /\ UNCHANGED <<services, name, checks, trials>>
    /\ UNCHANGED probe_vars
    /\ UNCHANGED lifecycle_vars

CheckAllNext ==
    \/ check_all_call
    \/ check_all_store
    \/ check_all_raise
    \/ check_all_return
    \/ parse_url
    \/ derive_port
    \/ resolve
    \/ connect
    \/ ssl_guard
    \/ wrap
    \/ validate_connect
    \/ validate_wrap
    \/ finish

CheckAllStart == LifecycleInit /\ ProbeIdle /\ CheckAllInit

CheckAllSpec == CheckAllStart /\ [][CheckAllNext]_vars

----------------------------------------------------------------------------
(* Properties of _check *)

StageOrder == <<"parse", "resolve", "connect", "wrap", "validate">>

FailureLines ==
    {"failed to parse url", "failed to resolve host with DNS",
     "failed to establish a socket connection", "failed to complete SSL handshake",
     "failed to validate server cert"}

\* the lines a stage contributes
StageLines(stage, ok) ==
    CASE stage = "parse"    -> IF ok THEN <<"checking", "using hostname and port">>
                                     ELSE <<"checking", "failed to parse url">>
      [] stage = "resolve"  -> IF ok THEN <<"successfully resolved host">>
                                     ELSE <<"failed to resolve host with DNS">>
      [] stage = "connect"  -> IF ok THEN <<"successfully opened socket connection">>
                                     ELSE <<"failed to establish a socket connection">>
      [] stage = "wrap"     -> IF ok THEN <<"succeeded at SSL handshake">>
                                     ELSE <<"failed to complete SSL handshake">>
      [] stage = "validate" -> IF ok THEN <<>>
                                     ELSE <<"failed to validate server cert">>

RECURSIVE LinesOf(_)
LinesOf(as) ==
    IF as = <<>> THEN <<>>
    ELSE StageLines(Head(as)[1], Head(as)[2]) \o LinesOf(Tail(as))

AllSucceeded(as) == \A i \in 1..Len(as) : as[i][2]

Failed(stage) == \E i \in 1..Len(attempts) : attempts[i] = <<stage, FALSE>>

\* C7: _check ends by returning a status list, never by an exception, for
\* every url and every failure; when a stage failed the last line of the
\* list is a failure line and the failed stage is the last one attempted.
C7_NeverRaises ==
    ppc = "done"
    => /\ result.kind = "returned"
       /\ ~AllSucceeded(attempts)
          => /\ result.status[Len(result.status)] \in FailureLines
             /\ ~attempts[Len(attempts)][2]
             /\ AllSucceeded(SubSeq(attempts, 1, Len(attempts) - 1))

\* C8: the stages are attempted in the fixed order, each at most once and
\* none after a failed one; a returned status list holds the lines of the
\* attempted stages in that order, the failure line (if any) last, and ends
\* with the success line exactly when every attempted stage succeeded.
C8_StageOrder ==
    /\ Len(attempts) <= Len(StageOrder)
    /\ \A i \in 1..Len(attempts) : attempts[i][1] = StageOrder[i]
    /\ \A i \in 1..Len(attempts) : i < Len(attempts) => attempts[i][2]
    /\ (ppc = "done" /\ result.kind = "returned")
       => /\ result.status =
               LinesOf(attempts) \o (IF AllSucceeded(attempts)
                                     THEN <<"everything seems to work">> ELSE <<>>)
          /\ \A i \in 1..Len(result.status) :
               result.status[i] \in FailureLines => i = Len(result.status)
          /\ AllSucceeded(attempts) <=> \E i \in 1..Len(result.status) :
                                          result.status[i] = "everything seems to work"

\* the unauthenticated handshake failed after three stages that succeeded
C8_Witness ==
    /\ ppc = "done" /\ result.kind = "returned"
    /\ Failed("wrap")
    /\ Len(result.status) = 5

\* C9: when DNS resolution fails _check returns exactly the two lines of
\* the parse stage and the line of the resolution failure, and no socket
\* was created.
C9_DnsFailure ==
    (ppc = "done" /\ Failed("resolve"))
    => /\ result.kind = "returned"
       /\ result.status = <<"checking", "using hostname and port",
                            "failed to resolve host with DNS">>
       /\ socks = <<>>
       /\ Len(attempts) = 2

C9_Witness ==
    /\ ppc = "done" /\ Failed("resolve")
    /\ url.hostname = "host"
    /\ AnySslParam(ssl_params)

\* C10: once the port is derived for a well-formed url it is the explicit
\* port of the url if there is one (any value of 0..65535), else 443 for
\* https and wss and 80 for every other scheme; every socket is created
\* for that port.
C10_EffectivePort ==
    (url.parse = "ok" /\ url.port.kind \in {"number", "none"} /\ port # <<>>)
    => LET expected == IF url.port.kind = "number" THEN url.port.n
                       ELSE IF url.scheme \in {"https", "wss"} THEN 443 ELSE 80
       IN /\ port = <<expected>>
          /\ \A i \in 1..Len(socks) : socks[i].port = expected

\* The stages that _check has attempted so far
Attempted(stage) == \E i \in 1..Len(attempts) : attempts[i][1] = stage

TlsLines ==
    { "succeeded at SSL handshake", "failed to complete SSL handshake",
      "failed to validate server cert" }

NoTlsLine(lines) == \A i \in 1..Len(lines) : lines[i] \notin TlsLines

\* C11: the TLS stages are attempted exactly when at least one of ca_certs,
\* keyfile and certfile is non-empty and the TCP connection succeeded (the
\* validating handshake only after the first handshake); for a call with no
\* TLS parameter set, neither the status list nor the result holds a line of
\* a TLS stage and at most one connection is opened.
C11_TlsGate ==
    /\ Attempted("wrap") =>
          /\ \E k \in DOMAIN ssl_params : ssl_params[k] # ""
          /\ Failed("connect") = FALSE
          /\ Attempted("connect")
    /\ Attempted("validate") => Attempted("wrap") /\ ~Failed("wrap")
    /\ ( /\ ppc = "done"
         /\ Attempted("connect")
         /\ ~Failed("connect")
         /\ \E k \in DOMAIN ssl_params : ssl_params[k] # "" )
       => Attempted("wrap")
    /\ (\A k \in DOMAIN ssl_params : ssl_params[k] = "") =>
          /\ NoTlsLine(status)
          /\ NoTlsLine(result.status)
          /\ Len(socks) <= 1

\* a call with no TLS parameter has returned after a successful connection,
\* with one connection opened
C11_Witness ==
    /\ ppc = "done"
    /\ result.kind = "returned"
    /\ \A k \in DOMAIN ssl_params : ssl_params[k] = ""
    /\ Attempted("connect")
    /\ ~Failed("connect")
    /\ Len(socks) = 1
    /\ result.status[Len(result.status)] = "everything seems to work"

\* a call with the key file alone has attempted the first TLS handshake
C11_WitnessOneParameter ==
    /\ Attempted("wrap")
    /\ Cardinality({k \in DOMAIN ssl_params : ssl_params[k] # ""}) = 1

\* the status list _check returns after the attempts `as`
ReturnedLines(as) ==
    LinesOf(as) \o (IF AllSucceeded(as) THEN <<"everything seems to work">> ELSE <<>>)

\* every entry of checks is the list a _check of that service alone returns
EntriesIndependent ==
    \A n \in DOMAIN checks :
        /\ n \in DOMAIN services
        /\ checks[n] = ReturnedLines(trials[n])

\* C12: check_all ends by returning a dict with one entry for each of the N
\* configured services and no other, each the status list _check returns
\* for that service alone, whatever stage failed for the other services.
C12_ReportComplete ==
    /\ EntriesIndependent
    /\ cpc \in {"returned", "raised"} =>
          /\ cpc = "returned"
          /\ DOMAIN checks = DOMAIN services

\* C12 without the calls that raise (C7): when no configured host has a port
\* that is not a number, check_all returns the N independent entries
C12_WhenNoCallRaises ==
    (\A n \in DOMAIN services : services[n].url.port.kind = "none")
    => C12_ReportComplete

\* check_all returned two entries, one of a failed and one of a successful
\* _check
C12_MixedReport ==
    /\ cpc = "returned"
    /\ Cardinality(DOMAIN checks) = 2
    /\ \E m, n \in DOMAIN checks :
         /\ ~AllSucceeded(trials[m])
         /\ AllSucceeded(trials[n])

\* C13: the connection of the first TLS handshake is closed once that stage
\* is over, failed or not, and before the validating stage opens its own new
\* connection; the connection of the validating stage is closed on every way
\* out of it (success, handshake failure, validation failure).
C13_TlsConnectionsClosed ==
    /\ Attempted("wrap") => socks[1].state = "closed"
    /\ ppc = "validate_connect" =>
          /\ Len(socks) = 1
          /\ socks[1].state = "closed"
    /\ Len(socks) <= 2
    /\ Len(socks) = 2 =>
          /\ socks[1].state = "closed"
          /\ Attempted("validate") <=> ppc # "validate_wrap"
          /\ Attempted("validate") => socks[2].state = "closed"
    /\ (ppc = "done" /\ Attempted("wrap")) =>
          \A i \in 1..Len(socks) : socks[i].state = "closed"

\* the validating handshake failed on its own connection, and both
\* connections are closed when _check returns
C13_Witness ==
    /\ ppc = "done"
    /\ result.kind = "returned"
    /\ Failed("validate")
    /\ Len(socks) = 2
    /\ socks[1].state = "closed"
    /\ socks[2].state = "closed"

\* the step appends a line to the status list, or returns it with one more
LineAppended ==
    \/ Len(status') > Len(status)
    \/ /\ result'.kind = "returned"
       /\ Len(result'.status) > Len(status)

\* C14: every stage that is executed (parse, DNS resolution, TCP connect,
\* first TLS handshake, validating TLS handshake) appends at least one line
\* of its own to the status list, whether it succeeds or fails.
C14_EveryStageAppends ==
    [][Len(attempts') > Len(attempts) => LineAppended]_vars

\* C14 for the stages before the validating handshake, in the calls that
\* return
C14_UntilValidation ==
    [][ ( /\ Len(attempts') > Len(attempts)
          /\ result'.kind # "raised"
          /\ attempts'[Len(attempts')] # <<"validate", TRUE>> )
        => LineAppended ]_vars

\* C17: when _check returns, no connection it opened is still open, on every
\* path: a failure at any stage, a success with TLS parameters, and a success
\* with none (where the connection of the connect stage is the only one).
C17_NoConnectionLeftOpen ==
    ppc = "done" => \A i \in 1..Len(socks) : socks[i].state = "closed"

\* C17 on the paths that close their sockets by a statement: the calls that
\* fail at some stage and the calls with a TLS parameter
C17_ClosedByStatement ==
    (ppc = "done" /\ (~AllSucceeded(attempts) \/ AnySslParam(ssl_params)))
    => \A i \in 1..Len(socks) : socks[i].state = "closed"

----------------------------------------------------------------------------
(* Properties of the lifecycle registry, continued *)

IsPrefix(a, b) == Len(a) <= Len(b) /\ SubSeq(b, 1, Len(a)) = a

\* every entry of reg is in reg2, at its place
Kept(reg, reg2) ==
    \A p \in DOMAIN reg : p \in DOMAIN reg2 /\ IsPrefix(reg[p], reg2[p])

\* the step is a step of a call: of its loops, its wait, or its begin or end
CallStep ==
    \/ pc' # pc
    \/ op' # op
    \/ startup_calls' # startup_calls
    \/ shutdown_calls' # shutdown_calls

\* C15: the two registries are independent and append-only. A registration
\* adds exactly one entry to its registry and leaves the other registry as it
\* was; no step removes or moves an entry; the steps of _run_startup,
\* _run_shutdown and mainloop leave both registries as they were; and a run
\* can always be started again, nothing guards against a repeated run.
C15_RegistriesAppendOnly ==
    /\ [][ /\ startup_registry' # startup_registry =>
                 /\ Kept(startup_registry, startup_registry')
                 /\ RegistrySize(startup_registry') = RegistrySize(startup_registry) + 1
                 /\ shutdown_registry' = shutdown_registry
                 /\ ~CallStep
           /\ shutdown_registry' # shutdown_registry =>
                 /\ Kept(shutdown_registry, shutdown_registry')
                 /\ RegistrySize(shutdown_registry') = RegistrySize(shutdown_registry) + 1
                 /\ startup_registry' = startup_registry
                 /\ ~CallStep ]_vars
    /\ [](pc = "idle" => ENABLED call_run_startup /\ ENABLED call_run_shutdown)

\* _run_startup is running again: the flag is set, which only the set_flag
\* entry of the startup registry can have done, and this call has called
\* the functions before that entry and not yet that entry
C15_Witness ==
    /\ op = "run_startup" /\ pc = "startup" /\ ~late
    /\ flag
    /\ Funcs(shutdown_registry) \cap FlagFuncs = {}
    /\ Len(startup_calls) >= 1
    /\ \A e \in Called(startup_calls) : FuncAt(startup_registry, e) # "set_flag"
    /\ RegistrySize(startup_registry) >= 3

InWaitLoop == op = "mainloop" /\ pc \in {"check", "wait"}

\* C16: when the stop event is set while mainloop is in its wait loop,
\* mainloop eventually leaves the loop, calls the shutdown functions and
\* ends; and it leaves the loop only with the stop event set, or by an
\* interrupt or an error of the wait.
C16_StopEndsMainloop ==
    /\ (InWaitLoop /\ stopped)
         ~> (op = "mainloop" /\ pc = "done" /\ left_by # "none"
               /\ <<StoppedPriority, 1>> \in Called(shutdown_calls))
    /\ [][ (InWaitLoop /\ ~InWaitLoop')
           => \/ stopped /\ left_by' = "stopped"
              \/ left_by' \in {"KeyboardInterrupt", "error"} ]_vars

\* mainloop has ended after its while test found the stop event set
C16_Witness ==
    /\ op = "mainloop" /\ pc = "done"
    /\ left_by = "stopped"
    /\ outcome = "returned"
    /\ stopped
    /\ Len(shutdown_calls) >= 2

\* C18: when a startup function raises in the startup phase of mainloop, the
\* exception leaves mainloop: the wait loop is not entered and no shutdown
\* function is called.
C18_StartupErrorLeavesMainloop ==
    (op = "mainloop"
       /\ \E e \in Called(startup_calls) : Raises(FuncAt(startup_registry, e)))
    => /\ pc = "done"
       /\ outcome = "raised"
       /\ left_by = "none"
       /\ ~pending
       /\ shutdown_calls = <<>>
       /\ warnings = 0
       /\ Raises(FuncAt(startup_registry, startup_calls[Len(startup_calls)]))

\* mainloop has ended by the exception of its second startup function, with
\* a user function in the shutdown registry
C18_Witness ==
    /\ op = "mainloop" /\ pc = "done"
    /\ outcome = "raised"
    /\ Len(startup_calls) = 2
    /\ Raises(FuncAt(startup_registry, startup_calls[2]))
    /\ RegistrySize(shutdown_registry) >= 2
    /\ shutdown_calls = <<>>

\* the functions a direct call of _run_startup or _run_shutdown has called
StartupRanLast == op = "run_startup"

RunCalls == IF StartupRanLast THEN startup_calls ELSE shutdown_calls

\* a registration r made while the registry was being run: its function was
\* called by that run
LateInvoked(r) == <<r[1], r[2]>> \in Called(RunCalls)

\* its priority had entries when the run began, and is not lower than the
\* priority of the function that was being called
LateEligible(r) ==
    /\ \E i \in 1..Len(order) : order[i] = r[1]
    /\ r[1] >= r[3]

\* C19 as stated: a function registered in the registry being run, while a
\* function of that run is being called, is called by the same run exactly
\* when its priority had an entry when the run began and is not lower than
\* the priority of the function being called; for _run_startup and for
\* _run_shutdown.
C19_LateRegistration ==
    pc = "done" => \A r \in late_regs : LateInvoked(r) <=> LateEligible(r)

\* C19 amended: it is called by the same run only when its priority had an
\* entry when the run began and is not lower than the priority of the
\* function being called; and then it is called, unless a startup function
\* raised and ended the run before its turn. _run_shutdown, which no function
\* ends, calls it exactly then.
C19_LateRegistrationUnlessAborted ==
    pc = "done" =>
        \A r \in late_regs :
            /\ LateInvoked(r) => LateEligible(r)
            /\ (LateEligible(r) /\ ~(StartupRanLast /\ outcome = "raised"))
                 => LateInvoked(r)

\* a _run_startup call has returned, having called one of the two functions
\* registered during it and not the other
C19_Witness ==
    /\ pc = "done" /\ op = "run_startup" /\ outcome = "returned"
    /\ \E r \in late_regs : LateInvoked(r)
    /\ \E r \in late_regs : ~LateInvoked(r)

\* the same for _run_shutdown, one function of it having raised
C19_WitnessShutdown ==
    /\ pc = "done" /\ op = "run_shutdown" /\ warnings >= 1
    /\ \E r \in late_regs : LateInvoked(r)
    /\ \E r \in late_regs : ~LateInvoked(r)

\* the step calls the stopped.clear entry of the startup registry
ClearCalled ==
    /\ Len(startup_calls') = Len(startup_calls) + 1
    /\ FuncAt(startup_registry, startup_calls'[Len(startup_calls')]) = "stopped.clear"

\* C20: the stop event is driven through the registries at priority 0. When
\* the shutdown functions have been run to the end the event is set,
\* whichever of them raised (no registered function clears it); the call of
\* stopped.clear by the startup functions unsets the event whatever was
\* requested before it, so that _run_startup ends with the event unset and
\* the while test of mainloop that finds it unset enters the wait.
C20_StopEventAtPriorityZero ==
    /\ [](ShutDown => stopped /\ <<StoppedPriority, 1>> \in Called(shutdown_calls))
    /\ []((op = "run_startup" /\ <<StoppedPriority, 1>> \in Called(startup_calls))
            => ~stopped)
    /\ [][ClearCalled => ~stopped']_vars
    /\ [][(pc = "check" /\ ~stopped /\ pc' # pc) => pc' = "wait"]_vars

\* _run_shutdown has returned with the event set, its function of
\* priority -10 and its function of priority 50 having raised
C20_Witness ==
    /\ op = "run_shutdown" /\ pc = "done" /\ outcome = "returned"
    /\ stopped
    /\ warnings = 2
    /\ \E e \in RaisingEntries(shutdown_registry) : e[1] < StoppedPriority
    /\ \E e \in RaisingEntries(shutdown_registry) : e[1] > StoppedPriority

\* the startup phase of mainloop is about to call stopped.clear with the
\* event set: a stop was requested while its function of priority -10 ran
C20_WitnessStopRequested ==
    /\ op = "mainloop" /\ pc = "startup"
    /\ stopped
    /\ order[pi] = StoppedPriority /\ fi = 1
    /\ Len(startup_calls) = 1

====
